---- MODULE Spec2Model ----
(***************************************************************************)
(* Model of the sensor-readings polling coordinator                        *)
(* (src/hooks/use-sensor-readings.ts) and of the transport function it     *)
(* calls (src/lib/api/sensor-readings.ts).                                 *)
(*                                                                         *)
(* The hook's React state, refs and props are the variables.  One action   *)
(* stands for one event-loop task: a setter call together with the render  *)
(* and the effects it causes, a timer tick, a refetch() call, or the       *)
(* settling of one pending transport call followed by the rest of          *)
(* fetchData (try / catch / finally).  Calls that are still pending at     *)
(* teardown settle afterwards; their state updates are applied as written  *)
(* in fetchData (React itself drops the updates of an unmounted hook).     *)
(***************************************************************************)
EXTENDS Integers, Sequences, FiniteSets, TLC

\* ------------------------------------------------------------------ bounds
MaxPage == 1
MaxQueryPage == 2
MaxQueryLimit == 1
MaxInFlight == 2
MaxTimers == 2
MaxReadings == 3
MaxTablePage == 3

\* --------------------------------------------------------------- constants
DEFAULT_SENSOR_POLL_INTERVAL_MS == 5000
PageFallback == 1
LimitFallback == 20

\* ------------------------------------------------------------- JS numbers
\* A JS number is NaN, +Infinity, -Infinity or a finite value; finite values
\* are counted in halves (h = 2 * value) so that fractions can be given.
NaN == [k |-> "nan", h |-> 0]
PosInf == [k |-> "inf", h |-> 0]
NegInf == [k |-> "-inf", h |-> 0]
Fin(h) == [k |-> "fin", h |-> h]
Int2Num(n) == Fin(2 * n)

NumberIsFinite(value) == value.k = "fin"
MathFloor(value) == value.h \div 2
MathMax(a, b) == IF a >= b THEN a ELSE b

sanitizePositiveInteger(value, fallback, allowZero) ==
    IF ~NumberIsFinite(value) THEN fallback
    ELSE LET normalized == MathFloor(value) IN
         IF allowZero
         THEN (IF normalized < 0 THEN fallback ELSE normalized)
         ELSE (IF normalized <= 0 THEN fallback ELSE normalized)

\* Results of the two sanitizers as the hook calls them.
SanitizePage(value) == sanitizePositiveInteger(value, PageFallback, TRUE)
SanitizeLimit(value) == sanitizePositiveInteger(value, LimitFallback, FALSE)

\* Inputs handed to the setters and to initialPage / initialLimit.
NumInputs(max) == {NaN, PosInf, NegInf} \cup {Fin(h) : h \in -3 .. (2 * max + 1)}
PageInputs == {v \in NumInputs(MaxQueryPage) : SanitizePage(v) <= MaxQueryPage}
LimitInputs == {v \in NumInputs(MaxQueryLimit) :
                  SanitizeLimit(v) <= MaxQueryLimit \/ SanitizeLimit(v) = LimitFallback}

\* Values the callers of the coordinator pass in normal use: whole page
\* numbers in range; a page size, and one value that is not a number.
PageArgs == {Int2Num(p) : p \in 0 .. MaxPage}
LimitArgs == {Int2Num(1), NaN}

\* Updater functions a caller may pass instead of a value; the table passes
\* "inc" and "decClamp".
TableUpdaters == {"inc", "decClamp"}
Updaters == {"inc", "dec", "decClamp", "half", "nan"}
ApplyUpdater(u, current) ==
    CASE u = "inc" -> Int2Num(current + 1)
      [] u = "dec" -> Int2Num(current - 1)
      [] u = "decClamp" -> Int2Num(MathMax(1, current - 1))
      [] u = "half" -> Fin(current)
      [] OTHER -> NaN

PollIntervals == {0, DEFAULT_SENSOR_POLL_INTERVAL_MS}

\* ---------------------------------------------------------------- payloads
NullMeta == [isNull |-> TRUE, page |-> 0, totalPages |-> 0]
Meta(p, t) == [isNull |-> FALSE, page |-> p, totalPages |-> t]
EmptyData == << >>
NoError == "null"
NoPayload == [data |-> EmptyData, meta |-> NullMeta]

\* --------------------------------------------------------------- transport
\* What the network hands back for one GET: the fetch() promise rejects
\* (abort, network failure) or yields a response with a status and a body.
NullBody == [isNull |-> TRUE, dataIsArray |-> FALSE, data |-> EmptyData,
             metaType |-> "undefined", meta |-> NullMeta]
Body(isArr, d, mt, m) == [isNull |-> FALSE, dataIsArray |-> isArr, data |-> d,
                          metaType |-> mt, meta |-> m]
GoodBodies == {Body(TRUE, <<1>>, "object", Meta(1, 1)),
               Body(TRUE, <<2, 1>>, "object", Meta(2, 3))}
BadBodies == {NullBody,
              Body(FALSE, EmptyData, "object", Meta(1, 1)),
              Body(TRUE, <<1>>, "undefined", NullMeta),
              Body(TRUE, <<1>>, "number", NullMeta),
              Body(TRUE, <<1>>, "null", NullMeta)}
RawAbort == [t |-> "abort", ok |-> FALSE, body |-> NullBody]
RawNetwork == [t |-> "network", ok |-> FALSE, body |-> NullBody]
RawResponse(ok, body) == [t |-> "response", ok |-> ok, body |-> body]
\* The responses the coordinator's transport calls are answered with: the two
\* well-formed payloads, a non-2xx status and a body whose data is no array.
RawResponses == {RawResponse(TRUE, b) : b \in GoodBodies}
                  \cup {RawResponse(FALSE, NullBody),
                        RawResponse(TRUE, Body(FALSE, EmptyData, "object", Meta(1, 1)))}

\* typeof payload.meta
JsTypeof(metaType) == IF metaType = "null" THEN "object" ELSE metaType

Resolve(payload) == [kind |-> "resolve", err |-> NoError, payload |-> payload]
Reject(err) == [kind |-> "reject", err |-> err, payload |-> NoPayload]

\* The payload object as the caller sees it (meta may be null).
PayloadOf(body) ==
    [data |-> body.data,
     meta |-> IF body.metaType = "object" THEN body.meta ELSE NullMeta]

fetchSensorReadings(raw) ==
    CASE raw.t = "abort" -> Reject("AbortError")
      [] raw.t = "network" -> Reject("NetworkError")
      [] OTHER ->
           IF ~raw.ok THEN Reject("HttpError")
           ELSE IF raw.body.isNull \/ ~raw.body.dataIsArray
                     \/ JsTypeof(raw.body.metaType) # "object"
                THEN Reject("ShapeError")
                ELSE Resolve(PayloadOf(raw.body))

\* ------------------------------------------------------- computeStatistics
\* A value that is not a number (JSON null where a number is expected).
NullValue == [k |-> "null", h |-> 0]
TypeofIsNumber(v) == v.k # "null"

\* Order of two JS numbers; every comparison with NaN is false.
Big == 1000000
Ord(v) == CASE v.k = "inf" -> Big [] v.k = "-inf" -> -Big [] OTHER -> v.h
NumLt(a, b) == a.k \notin {"nan", "null"} /\ b.k \notin {"nan", "null"} /\ Ord(a) < Ord(b)
NumGt(a, b) == NumLt(b, a)

\* Date.parse: the time value of a date string in days since 2024-01-01, NaN
\* for a string that is no date; two spellings of one instant parse alike.
Timestamps == {"", "2024-01-01T00:00:00Z", "2024-01-01T00:00:00.000Z",
               "2024-01-02T00:00:00Z", "2024-01-03T00:00:00Z"}
DateParse(timestamp) ==
    CASE timestamp = "2024-01-01T00:00:00Z" -> Int2Num(0)
      [] timestamp = "2024-01-01T00:00:00.000Z" -> Int2Num(0)
      [] timestamp = "2024-01-02T00:00:00Z" -> Int2Num(1)
      [] timestamp = "2024-01-03T00:00:00Z" -> Int2Num(2)
      [] OTHER -> NaN

\* The readings a page can hold: moisture is null, Infinity, 1 or 3.
Moistures == {NullValue, PosInf, Int2Num(1), Int2Num(3)}
Readings == [timestamp : Timestamps, moisture : Moistures]
NullReading == [timestamp |-> "null", moisture |-> NullValue]
SeqsUpTo(S, n) == UNION {[1 .. k -> S] : k \in 0 .. n}
ReadingSeqs == SeqsUpTo(Readings, MaxReadings)

\* sum / count as a fraction in lowest terms (sum is counted in halves).
RECURSIVE Gcd(_, _)
Gcd(a, b) == IF b = 0 THEN a ELSE Gcd(b, a % b)
Ratio(n, d) ==
    LET g == Gcd(IF n < 0 THEN -n ELSE n, d) IN [k |-> "ratio", n |-> n \div g, d |-> d \div g]
Divide(sum, count) == Ratio(sum.h, 2 * count)
Minus(a, b) == Fin(a.h - b.h)

\* The accumulators before the loop (lines 101-108).
StatsStart ==
    [latest |-> NullReading, earliest |-> NullReading,
     latestTime |-> NegInf, earliestTime |-> PosInf,
     sum |-> Int2Num(0), count |-> 0, min |-> PosInf, max |-> NegInf]

\* Loop bodies with one slip each: every dated reading becomes latest; ties
\* replace the candidate; every reading is counted.
StatsLoopLastSeen(acc, reading) ==
    LET moisture == reading.moisture
        a == IF TypeofIsNumber(moisture) /\ NumberIsFinite(moisture)
             THEN [acc EXCEPT !.sum = Fin(acc.sum.h + moisture.h),
                              !.count = acc.count + 1,
                              !.min = IF NumLt(moisture, acc.min) THEN moisture ELSE acc.min,
                              !.max = IF NumGt(moisture, acc.max) THEN moisture ELSE acc.max]
             ELSE acc
        parsedTime == DateParse(reading.timestamp)
    IN IF parsedTime.k = "nan" THEN a
       ELSE LET b == [a EXCEPT !.latestTime = parsedTime, !.latest = reading]
            IN IF NumLt(parsedTime, b.earliestTime)
               THEN [b EXCEPT !.earliestTime = parsedTime, !.earliest = reading]
               ELSE b

StatsLoopNonStrict(acc, reading) ==
    LET moisture == reading.moisture
        a == IF TypeofIsNumber(moisture) /\ NumberIsFinite(moisture)
             THEN [acc EXCEPT !.sum = Fin(acc.sum.h + moisture.h),
                              !.count = acc.count + 1,
                              !.min = IF NumLt(moisture, acc.min) THEN moisture ELSE acc.min,
                              !.max = IF NumGt(moisture, acc.max) THEN moisture ELSE acc.max]
             ELSE acc
        parsedTime == DateParse(reading.timestamp)
    IN IF parsedTime.k = "nan" THEN a
       ELSE LET b == IF ~NumLt(parsedTime, a.latestTime)
                     THEN [a EXCEPT !.latestTime = parsedTime, !.latest = reading]
                     ELSE a
            IN IF ~NumGt(parsedTime, b.earliestTime)
               THEN [b EXCEPT !.earliestTime = parsedTime, !.earliest = reading]
               ELSE b

StatsLoopCountsAll(acc, reading) ==
    LET moisture == reading.moisture
        a == IF TypeofIsNumber(moisture) /\ NumberIsFinite(moisture)
             THEN [acc EXCEPT !.sum = Fin(acc.sum.h + moisture.h),
                              !.count = acc.count + 1,
                              !.min = IF NumLt(moisture, acc.min) THEN moisture ELSE acc.min,
                              !.max = IF NumGt(moisture, acc.max) THEN moisture ELSE acc.max]
             ELSE [acc EXCEPT !.count = acc.count + 1]
        parsedTime == DateParse(reading.timestamp)
    IN IF parsedTime.k = "nan" THEN a
       ELSE LET b == IF NumGt(parsedTime, a.latestTime)
                     THEN [a EXCEPT !.latestTime = parsedTime, !.latest = reading]
                     ELSE a
            IN IF NumLt(parsedTime, b.earliestTime)
               THEN [b EXCEPT !.earliestTime = parsedTime, !.earliest = reading]
               ELSE b

\* One pass of the loop body (lines 110-135).
StatsLoop(acc, reading) ==
    LET moisture == reading.moisture
        a == IF TypeofIsNumber(moisture) /\ NumberIsFinite(moisture)
             THEN [acc EXCEPT !.sum = Fin(acc.sum.h + moisture.h),
                              !.count = acc.count + 1,
                              !.min = IF NumLt(moisture, acc.min) THEN moisture ELSE acc.min,
                              !.max = IF NumGt(moisture, acc.max) THEN moisture ELSE acc.max]
             ELSE acc
        parsedTime == DateParse(reading.timestamp)
    IN IF parsedTime.k = "nan" THEN a
       ELSE LET b == IF NumGt(parsedTime, a.latestTime)
                     THEN [a EXCEPT !.latestTime = parsedTime, !.latest = reading]
                     ELSE a
            IN IF NumLt(parsedTime, b.earliestTime)
               THEN [b EXCEPT !.earliestTime = parsedTime, !.earliest = reading]
               ELSE b

\* for (const reading of data)
RECURSIVE StatsFold(_, _, _)
StatsFold(acc, data, i) ==
    IF i > Len(data) THEN acc ELSE StatsFold(StatsLoop(acc, data[i]), data, i + 1)

\* latestMoisture / earliestMoisture (lines 137-144).
MoistureOrNull(reading) ==
    IF reading # NullReading /\ TypeofIsNumber(reading.moisture)
         /\ NumberIsFinite(reading.moisture)
    THEN reading.moisture ELSE NullValue

\* Results with one slip each: an average of 0 and a lastUpdated of 0 for no
\* readings; no trend when latest and earliest are one reading.
StatsResultZeroWhenEmpty(acc) ==
    LET latestMoisture == MoistureOrNull(acc.latest)
        earliestMoisture == MoistureOrNull(acc.earliest)
    IN [average |-> IF acc.count > 0 THEN Divide(acc.sum, acc.count) ELSE Ratio(0, 1),
        min |-> IF acc.count > 0 THEN acc.min ELSE NullValue,
        max |-> IF acc.count > 0 THEN acc.max ELSE NullValue,
        range |-> IF acc.count > 0 THEN Minus(acc.max, acc.min) ELSE NullValue,
        trend |-> IF TypeofIsNumber(latestMoisture) /\ TypeofIsNumber(earliestMoisture)
                  THEN Minus(latestMoisture, earliestMoisture) ELSE NullValue,
        latest |-> acc.latest,
        earliest |-> acc.earliest,
        lastUpdated |-> IF NumGt(acc.latestTime, NegInf) THEN acc.latestTime ELSE Int2Num(0)]

StatsResultNoTrendForOne(acc) ==
    LET latestMoisture == MoistureOrNull(acc.latest)
        earliestMoisture == MoistureOrNull(acc.earliest)
    IN [average |-> IF acc.count > 0 THEN Divide(acc.sum, acc.count) ELSE NullValue,
        min |-> IF acc.count > 0 THEN acc.min ELSE NullValue,
        max |-> IF acc.count > 0 THEN acc.max ELSE NullValue,
        range |-> IF acc.count > 0 THEN Minus(acc.max, acc.min) ELSE NullValue,
        trend |-> IF TypeofIsNumber(latestMoisture) /\ TypeofIsNumber(earliestMoisture)
                       /\ acc.latestTime # acc.earliestTime
                  THEN Minus(latestMoisture, earliestMoisture) ELSE NullValue,
        latest |-> acc.latest,
        earliest |-> acc.earliest,
        lastUpdated |-> IF NumGt(acc.latestTime, NegInf) THEN acc.latestTime ELSE NullValue]

\* The returned object (lines 146-159).
StatsResult(acc) ==
    LET latestMoisture == MoistureOrNull(acc.latest)
        earliestMoisture == MoistureOrNull(acc.earliest)
    IN [average |-> IF acc.count > 0 THEN Divide(acc.sum, acc.count) ELSE NullValue,
        min |-> IF acc.count > 0 THEN acc.min ELSE NullValue,
        max |-> IF acc.count > 0 THEN acc.max ELSE NullValue,
        range |-> IF acc.count > 0 THEN Minus(acc.max, acc.min) ELSE NullValue,
        trend |-> IF TypeofIsNumber(latestMoisture) /\ TypeofIsNumber(earliestMoisture)
                  THEN Minus(latestMoisture, earliestMoisture) ELSE NullValue,
        latest |-> acc.latest,
        earliest |-> acc.earliest,
        lastUpdated |-> IF NumGt(acc.latestTime, NegInf) THEN acc.latestTime ELSE NullValue]

computeStatistics(data) == StatsResult(StatsFold(StatsStart, data, 1))

\* statistics before the dashboard has computed them.
NotComputed == [average |-> NullValue, min |-> NullValue, max |-> NullValue,
                range |-> NullValue, trend |-> NullValue, latest |-> NullReading,
                earliest |-> NullReading, lastUpdated |-> NaN]
\* ------------------------------------------------------------- hook state
VARIABLES page, limit, data, meta, isLoading, isRefreshing, error,
          controllerRef, intervalRef, controllers, calls, request, timers,
          intervalCleanup, enabled, pollIntervalMs, phase,
          last, dirty, latestOutcome, lastSuccess, lateStale,
          readings, statistics

\* The program's own state: React state, refs, props, and what the runtime
\* holds for it: the abort controllers (controllers[c] is c.signal.aborted),
\* the fetchData calls suspended at the await (calls[c].withLoading, keyed by
\* the call's controller), the page and limit handed to the transport by the
\* most recent call (request), the live timers with the page and limit their
\* callbacks close over, and whether the interval effect registered a cleanup.
progVars == <<page, limit, data, meta, isLoading, isRefreshing, error,
              controllerRef, intervalRef, controllers, calls, request, timers,
              intervalCleanup, enabled, pollIntervalMs>>
\* History: the last event; whether data or meta changed since the most
\* recent request was issued; that request's outcome; the payload of the last
\* successful response given to a request that was then the most recent one
\* and not cancelled; whether a superseded request settled after the most
\* recent one did.
histVars == <<last, dirty, latestOutcome, lastSuccess, lateStale>>
\* The dashboard's memo: the array last handed to computeStatistics and the
\* statistics it returned.
statVars == <<readings, statistics>>
vars == <<progVars, phase, histVars, statVars>>
\* The memo of a dashboard that has not rendered any readings.
StatsIdle == readings = << >> /\ statistics = NotComputed

Cur == [page |-> page, limit |-> limit, data |-> data, meta |-> meta,
        isLoading |-> isLoading, isRefreshing |-> isRefreshing,
        error |-> error, controllerRef |-> controllerRef,
        intervalRef |-> intervalRef, controllers |-> controllers,
        calls |-> calls, request |-> request, timers |-> timers,
        intervalCleanup |-> intervalCleanup, enabled |-> enabled,
        pollIntervalMs |-> pollIntervalMs]

Apply(s) ==
    /\ page' = s.page /\ limit' = s.limit /\ data' = s.data /\ meta' = s.meta
    /\ isLoading' = s.isLoading /\ isRefreshing' = s.isRefreshing
    /\ error' = s.error /\ controllerRef' = s.controllerRef
    /\ intervalRef' = s.intervalRef /\ controllers' = s.controllers
    /\ calls' = s.calls /\ request' = s.request /\ timers' = s.timers
    /\ intervalCleanup' = s.intervalCleanup /\ enabled' = s.enabled
    /\ pollIntervalMs' = s.pollIntervalMs
    /\ UNCHANGED statVars

\* ----------------------------------------------------------- small helpers
Restrict(f, D) == [i \in D |-> f[i]]
Extend(f, i, v) == [j \in DOMAIN f \cup {i} |-> IF j = i THEN v ELSE f[j]]
Smallest(S) == CHOOSE i \in S : \A j \in S : i <= j

\* Controllers the program can still reach: those of pending calls and the
\* one held by controllerRef.  An AbortController is an object; the model
\* names the reachable ones 1, 2, ... in the order they were created, and
\* Collect drops the unreachable ones and closes the gaps in the numbering.
LiveControllers(s) == DOMAIN s.calls \cup (IF s.controllerRef = 0 THEN {} ELSE {s.controllerRef})
Rank(L, i) == Cardinality({j \in L : j <= i})
Collect(s) ==
    LET L == LiveControllers(s)
        old(k) == CHOOSE i \in L : Rank(L, i) = k
    IN [s EXCEPT !.controllers = [k \in 1 .. Cardinality(L) |-> s.controllers[old(k)]],
                 !.calls = [k \in {Rank(L, i) : i \in DOMAIN s.calls} |-> s.calls[old(k)]],
                 !.controllerRef = IF s.controllerRef = 0 THEN 0
                                   ELSE Rank(L, s.controllerRef)]

\* A new controller takes the next name; a request is started only while
\* fewer than MaxInFlight calls are pending.
NewId(s) == Cardinality(DOMAIN s.controllers) + 1
CanIssue(s) == Cardinality(DOMAIN s.calls) < MaxInFlight
FreeTimers(s) == (1 .. MaxTimers) \ DOMAIN s.timers

\* controllerRef.current?.abort()
AbortCurrent(s) ==
    IF s.controllerRef = 0 THEN s
    ELSE [s EXCEPT !.controllers[s.controllerRef] = TRUE]

\* A clearing that forgets the timer without stopping it.
ClearIntervalForgets(s) == [s EXCEPT !.intervalRef = 0]

\* if (intervalRef.current) { clearInterval(intervalRef.current); intervalRef.current = null; }
ClearInterval(s) ==
    IF s.intervalRef = 0 THEN s
    ELSE [s EXCEPT !.timers = Restrict(s.timers, DOMAIN s.timers \ {s.intervalRef}),
                   !.intervalRef = 0]

\* ---------------------------------------------------------------- fetchData
\* A fetchData that starts without controllerRef.current?.abort().
fetchDataStartNoAbort(s, nextPage, nextLimit, withLoading) ==
    LET id == NewId(s)
        b == [s EXCEPT !.controllers = Extend(s.controllers, id, FALSE),
                       !.controllerRef = id,
                       !.calls = Extend(s.calls, id, [withLoading |-> withLoading]),
                       !.request = [page |-> nextPage, limit |-> nextLimit]]
        c == IF withLoading THEN [b EXCEPT !.isLoading = TRUE]
             ELSE [b EXCEPT !.isRefreshing = TRUE]
    IN Collect(c)

\* The synchronous part of fetchData, up to the await (lines 83-98).
fetchDataStart(s, nextPage, nextLimit, withLoading) ==
    LET id == NewId(s)
        a == AbortCurrent(s)
        b == [a EXCEPT !.controllers = Extend(a.controllers, id, FALSE),
                       !.controllerRef = id,
                       !.calls = Extend(a.calls, id, [withLoading |-> withLoading]),
                       !.request = [page |-> nextPage, limit |-> nextLimit]]
        c == IF withLoading THEN [b EXCEPT !.isLoading = TRUE]
             ELSE [b EXCEPT !.isRefreshing = TRUE]
    IN Collect(c)

\* Variants of the try / catch part, each with one plausible slip: the
\* staleness test of line 100 left out; the AbortError test of line 110 left
\* out; data and meta wiped on failure; setError(null) of line 106 left out.
fetchDataTryNoStaleCheck(s, id, result) ==
    IF result.kind = "resolve"
    THEN [s EXCEPT !.data = result.payload.data,
                   !.meta = result.payload.meta,
                   !.error = NoError]
    ELSE IF result.err = "AbortError"
         THEN s
         ELSE [s EXCEPT !.error = result.err]

fetchDataTryNoAbortCheck(s, id, result) ==
    IF result.kind = "resolve"
    THEN IF s.controllers[id] \/ s.controllerRef # id
         THEN s
         ELSE [s EXCEPT !.data = result.payload.data,
                        !.meta = result.payload.meta,
                        !.error = NoError]
    ELSE [s EXCEPT !.error = result.err]

fetchDataTryWipeOnError(s, id, result) ==
    IF result.kind = "resolve"
    THEN IF s.controllers[id] \/ s.controllerRef # id
         THEN s
         ELSE [s EXCEPT !.data = result.payload.data,
                        !.meta = result.payload.meta,
                        !.error = NoError]
    ELSE IF result.err = "AbortError"
         THEN s
         ELSE [s EXCEPT !.error = result.err, !.data = EmptyData, !.meta = NullMeta]

fetchDataTryKeepError(s, id, result) ==
    IF result.kind = "resolve"
    THEN IF s.controllers[id] \/ s.controllerRef # id
         THEN s
         ELSE [s EXCEPT !.data = result.payload.data,
                        !.meta = result.payload.meta]
    ELSE IF result.err = "AbortError"
         THEN s
         ELSE [s EXCEPT !.error = result.err]

\* The try / catch part after the await settles (lines 100-115).
fetchDataTry(s, id, result) ==
    IF result.kind = "resolve"
    THEN IF s.controllers[id] \/ s.controllerRef # id
         THEN s
         ELSE [s EXCEPT !.data = result.payload.data,
                        !.meta = result.payload.meta,
                        !.error = NoError]
    ELSE IF result.err = "AbortError"
         THEN s
         ELSE [s EXCEPT !.error = result.err]

\* A fetchData that hands back every response it receives.
fetchDataReturnAnyResponse(s, id, result) ==
    IF result.kind = "resolve" THEN result.payload ELSE NoPayload

\* What fetchData returns (lines 101, 108, 111, 115); null is NoPayload.
fetchDataReturn(s, id, result) ==
    IF result.kind = "resolve" /\ ~(s.controllers[id] \/ s.controllerRef # id)
    THEN result.payload
    ELSE NoPayload

\* A finally block that clears only the refreshing flag.
fetchDataFinallyKeepsLoading(s, id) ==
    IF s.calls[id].withLoading THEN s ELSE [s EXCEPT !.isRefreshing = FALSE]

\* The finally block (lines 116-128).
fetchDataFinally(s, id) ==
    LET isLatestRequest == s.controllerRef = id IN
    IF s.calls[id].withLoading
    THEN (IF isLatestRequest THEN [s EXCEPT !.isLoading = FALSE] ELSE s)
    ELSE IF isLatestRequest
         THEN [s EXCEPT !.isRefreshing = FALSE]
         ELSE [s EXCEPT !.isRefreshing = FALSE]

\* The whole continuation of one pending call, then the call is gone.
fetchDataSettle(s, id, result) ==
    LET a == fetchDataTry(s, id, result)
        b == fetchDataFinally(a, id)
        c == [b EXCEPT !.calls = Restrict(b.calls, DOMAIN b.calls \ {id})]
    IN Collect(c)

\* ------------------------------------------------------------------ effects
\* An unmount cleanup that stops the timer only.
unmountCleanupNoAbort(s) == ClearInterval(s)

\* Cleanup returned by the mount effect (lines 134-140).
unmountCleanup(s) == ClearInterval(AbortCurrent(s))

\* A load effect whose disabled branch forgets controllerRef.current?.abort().
loadEffectNoAbort(s) ==
    IF ~s.enabled
    THEN [ClearInterval(s) EXCEPT !.isLoading = FALSE, !.isRefreshing = FALSE]
    ELSE fetchDataStart(s, s.page, s.limit, TRUE)

\* Effect on [enabled, page, limit, fetchData] (lines 143-156).
loadEffect(s) ==
    IF ~s.enabled
    THEN [ClearInterval(AbortCurrent(s)) EXCEPT !.isLoading = FALSE,
                                                !.isRefreshing = FALSE]
    ELSE fetchDataStart(s, s.page, s.limit, TRUE)

\* Effect on [enabled, page, limit, pollIntervalMs, fetchData] (lines 158-174);
\* the timer's callback closes over the page and limit of this render.
intervalEffect(s) ==
    IF ~s.enabled THEN [s EXCEPT !.intervalCleanup = FALSE]
    ELSE IF s.pollIntervalMs <= 0 THEN [s EXCEPT !.intervalCleanup = FALSE]
    ELSE LET a == IF s.intervalRef = 0 THEN s
                  ELSE [s EXCEPT !.timers = Restrict(s.timers,
                                              DOMAIN s.timers \ {s.intervalRef})]
             t == Smallest(FreeTimers(a))
         IN [a EXCEPT !.timers = Extend(a.timers, t,
                                        [page |-> s.page, limit |-> s.limit]),
                      !.intervalRef = t,
                      !.intervalCleanup = TRUE]

\* Cleanup returned by the interval effect (lines 175-180).
intervalEffectCleanup(s) == ClearInterval(s)

\* Dependency lists with an entry forgotten: limit in the load effect's,
\* page and limit in the interval effect's.
LoadDepsNoLimit(s) == <<s.enabled, s.page>>
\* The dependency lists of the two effects (lines 156 and 181); fetchData
\* never changes.
LoadDeps(s) == <<s.enabled, s.page, s.limit>>
IntervalDepsNoQuery(s) == <<s.enabled, s.pollIntervalMs>>
IntervalDeps(s) == <<s.enabled, s.page, s.limit, s.pollIntervalMs>>

\* A render after which no cleanup runs: the interval effect returns none.
RunEffectsNoCleanup(prev, s) ==
    LET b == IF LoadDeps(prev) # LoadDeps(s) THEN loadEffect(s) ELSE s
        c == IF IntervalDeps(prev) # IntervalDeps(s) THEN intervalEffect(b) ELSE b
    IN c

\* After a render whose state or props differ from the previous render's
\* (prev), React runs the cleanups of the effects whose dependencies changed
\* and then their bodies, in the order the effects are declared.
RunEffects(prev, s) ==
    LET a == IF IntervalDeps(prev) # IntervalDeps(s) /\ s.intervalCleanup
             THEN intervalEffectCleanup(s) ELSE s
        b == IF LoadDeps(prev) # LoadDeps(s) THEN loadEffect(a) ELSE a
        c == IF IntervalDeps(prev) # IntervalDeps(s) THEN intervalEffect(b) ELSE b
    IN c

\* Does the render after prev -> s start a request / install a timer?
StartsRequest(prev, s) == LoadDeps(prev) # LoadDeps(s) /\ s.enabled
Room(prev, s) ==
    /\ StartsRequest(prev, s) => CanIssue(s)
    /\ FreeTimers(s) # {} \/ s.intervalRef # 0

\* ------------------------------------------------------------------ setters
\* A setLimit that also resets the page, as its callers do by hand.
setLimitResetsPage(s, nextValue) ==
    [s EXCEPT !.limit = SanitizeLimit(nextValue), !.page = 1]

\* setPage (lines 183-193) and setLimit (lines 195-205): the new state value.
setPage(s, nextValue) == [s EXCEPT !.page = SanitizePage(nextValue)]
setLimit(s, nextValue) == [s EXCEPT !.limit = SanitizeLimit(nextValue)]

\* A refetch that asks for the loading flag.
refetchWithLoading(s) == fetchDataStart(s, s.page, s.limit, TRUE)

\* refetch (lines 207-211)
refetch(s) == fetchDataStart(s, s.page, s.limit, FALSE)

\* The interval callback (lines 171-173) of timer t.
intervalCallback(s, t) == fetchDataStart(s, s.timers[t].page, s.timers[t].limit, FALSE)

\* -------------------------------------------------------------- the table
\* The table component (sensor-readings-table.tsx) renders the coordinator's
\* state and drives it through three controls.
PAGE_SIZE_OPTIONS == {10, 20, 50}
\* The value attributes of the <option> elements, as the change event
\* delivers them, and Number.parseInt(text, 10) of such a text.
SelectValues == {"10", "20", "50"}
NumberParseInt(text) ==
    CASE text = "10" -> Int2Num(10)
      [] text = "20" -> Int2Num(20)
      [] text = "50" -> Int2Num(50)
      [] OTHER -> NaN

\* Lines 66-82: the page shown, the page count taken from meta (0 stands for
\* null) and whether the two paging buttons may act.
displayPage(s) ==
    LET currentPageFromMeta == IF s.meta.isNull THEN s.page ELSE s.meta.page IN
    IF currentPageFromMeta > 0 THEN currentPageFromMeta ELSE 1
totalPagesFromMeta(s) ==
    IF ~s.meta.isNull /\ s.meta.totalPages > 0 THEN s.meta.totalPages ELSE 0
canPreviousPage(s) == displayPage(s) > 1
canNextPage(s) ==
    IF totalPagesFromMeta(s) # 0 THEN displayPage(s) < totalPagesFromMeta(s)
    ELSE Len(s.data) >= s.limit

\* handlePrevious (lines 105-109) and handleNext (lines 111-115)
handlePrevious(s) ==
    IF canPreviousPage(s) THEN setPage(s, ApplyUpdater("decClamp", s.page)) ELSE s
handleNext(s) ==
    IF canNextPage(s) THEN setPage(s, ApplyUpdater("inc", s.page)) ELSE s

\* A change handler that sets the page size and leaves the page alone.
handleLimitChangeKeepsPage(s, text) ==
    LET value == NumberParseInt(text) IN
    IF ~NumberIsFinite(value) THEN s ELSE setLimit(s, value)

\* handleLimitChange (lines 117-124): both state updates of the one event
\* are applied before the next render.
handleLimitChange(s, text) ==
    LET value == NumberParseInt(text) IN
    IF ~NumberIsFinite(value) THEN s
    ELSE setPage(setLimit(s, value), Int2Num(1))

\* ------------------------------------------------------------------ history
NoResult == [kind |-> "none", err |-> NoError, payload |-> NoPayload]
NoArg == NaN
\* An event: the operation, the request it issued or settled, the argument
\* of a setter or what the network handed back, the transport result of a settled call and the value the
\* settled fetchData call returned to its caller.
Event(op, id, arg, result, ret) ==
    [op |-> op, id |-> id, arg |-> arg, result |-> result, ret |-> ret]

\* History kept by an action that is not the settling of a call: s0 is the
\* state before, s1 the state after.
Record(op, arg, s0, s1) ==
    LET starts == Cardinality(DOMAIN s1.calls) > Cardinality(DOMAIN s0.calls) IN
    /\ last' = Event(op, IF starts THEN s1.controllerRef ELSE 0, arg, NoResult, NoPayload)
    /\ dirty' = IF starts THEN FALSE
                ELSE dirty \/ s1.data # s0.data \/ s1.meta # s0.meta
    /\ latestOutcome' = IF starts THEN "pending" ELSE latestOutcome
    /\ lateStale' = IF starts THEN FALSE ELSE lateStale
    /\ UNCHANGED lastSuccess

\* -------------------------------------------------------------------- Init
\* The state after the first render (useState initialisers, lines 66-79),
\* before any effect has run.
InitFrom(pages, limits) ==
    /\ \E initialPage \in pages : page = SanitizePage(initialPage)
    /\ \E initialLimit \in limits : limit = SanitizeLimit(initialLimit)
    /\ enabled \in BOOLEAN
    /\ pollIntervalMs \in PollIntervals
    /\ data = EmptyData
    /\ meta = NullMeta
    /\ isLoading = enabled
    /\ isRefreshing = FALSE
    /\ error = NoError
    /\ controllerRef = 0
    /\ intervalRef = 0
    /\ controllers = << >>
    /\ calls = << >>
    /\ request = [page |-> 0, limit |-> 0]
    /\ timers = << >>
    /\ intervalCleanup = FALSE
    /\ phase = "rendered"
    /\ last = Event("init", 0, NoArg, NoResult, NoPayload)
    /\ dirty = FALSE
    /\ latestOutcome = "none"
    /\ lastSuccess = NoPayload
    /\ lateStale = FALSE

Init == InitFrom(PageArgs, LimitArgs) /\ StatsIdle

\* ----------------------------------------------------------------- actions
\* Initial activation: the effects run for the first time.
Mount ==
    /\ phase = "rendered"
    /\ LET s1 == intervalEffect(loadEffect(Cur)) IN
       /\ Apply(s1)
       /\ Record("mount", NoArg, Cur, s1)
    /\ phase' = "mounted"

\* A caller's setPage(value) / setPage(updater), the render and its effects.
SetPageTo(nextValue, max) ==
    /\ phase = "mounted"
    /\ SanitizePage(nextValue) <= max
    /\ LET s0 == setPage(Cur, nextValue)
           s1 == RunEffects(Cur, s0) IN
       /\ Room(Cur, s0)
       /\ Apply(s1)
       /\ Record("setPage", nextValue, Cur, s1)
    /\ UNCHANGED phase

SetPageValue == \E v \in PageArgs : SetPageTo(v, MaxPage)
SetPageUpdater == \E u \in TableUpdaters : SetPageTo(ApplyUpdater(u, page), MaxPage)

SetLimitTo(nextValue, max) ==
    /\ phase = "mounted"
    /\ SanitizeLimit(nextValue) <= max \/ SanitizeLimit(nextValue) = LimitFallback
    /\ LET s0 == setLimit(Cur, nextValue)
           s1 == RunEffects(Cur, s0) IN
       /\ Room(Cur, s0)
       /\ Apply(s1)
       /\ Record("setLimit", nextValue, Cur, s1)
    /\ UNCHANGED phase

SetLimitValue == \E v \in LimitArgs : SetLimitTo(v, 1)

\* The owner re-renders the hook with another enabled / pollIntervalMs.
SetEnabled ==
    /\ phase = "mounted"
    /\ LET s0 == [Cur EXCEPT !.enabled = ~enabled]
           s1 == RunEffects(Cur, s0) IN
       /\ Room(Cur, s0)
       /\ Apply(s1)
       /\ Record("setEnabled", NoArg, Cur, s1)
    /\ UNCHANGED phase

SetPollIntervalMs ==
    /\ phase = "mounted"
    /\ \E ms \in PollIntervals \ {pollIntervalMs} :
         LET s0 == [Cur EXCEPT !.pollIntervalMs = ms]
             s1 == RunEffects(Cur, s0) IN
         /\ Room(Cur, s0)
         /\ Apply(s1)
         /\ Record("setPollIntervalMs", NoArg, Cur, s1)
    /\ UNCHANGED phase

\* A live timer fires.
TimerTick ==
    /\ phase = "mounted"
    /\ CanIssue(Cur)
    /\ \E t \in DOMAIN timers :
         LET s1 == intervalCallback(Cur, t) IN
         /\ Apply(s1)
         /\ Record("timer", NoArg, Cur, s1)
    /\ UNCHANGED phase

\* A caller invokes refetch().
Refetch ==
    /\ phase = "mounted"
    /\ CanIssue(Cur)
    /\ LET s1 == refetch(Cur) IN
       /\ Apply(s1)
       /\ Record("refetch", NoArg, Cur, s1)
    /\ UNCHANGED phase

\* What the transport may hand to the pending call id: any response, and a
\* cancellation outcome once the signal is aborted.
Outcomes(id) ==
    RawResponses \cup (IF controllers[id] THEN {RawAbort} ELSE {})

\* The transport call of the pending fetchData call id settles with raw and
\* fetchData runs on to its end.
SettleWith(id, raw) ==
    /\ phase \in {"mounted", "unmounted"}
    /\ LET result == fetchSensorReadings(raw)
           s1 == fetchDataSettle(Cur, id, result) IN
       /\ Apply(s1)
       /\ last' = Event("settle", id, raw, result, fetchDataReturn(Cur, id, result))
       /\ dirty' = (dirty \/ s1.data # data \/ s1.meta # meta)
       /\ latestOutcome' = IF controllerRef # id THEN latestOutcome
                           ELSE IF result.kind = "resolve" THEN "ok"
                           ELSE IF result.err = "AbortError" THEN "cancelled"
                           ELSE "failed"
       /\ lastSuccess' = IF controllerRef = id /\ ~controllers[id]
                              /\ result.kind = "resolve"
                           THEN result.payload ELSE lastSuccess
       /\ lateStale' = (lateStale \/ (controllerRef # id
                                        /\ latestOutcome \notin {"none", "pending"}))
    /\ UNCHANGED phase

Settle == \E id \in DOMAIN calls : \E raw \in Outcomes(id) : SettleWith(id, raw)

\* Teardown: the cleanups of the mount effect and of the interval effect.
Unmount ==
    /\ phase = "mounted"
    /\ LET a == unmountCleanup(Cur)
           s1 == IF a.intervalCleanup THEN intervalEffectCleanup(a) ELSE a IN
       /\ Apply(s1)
       /\ Record("unmount", NoArg, Cur, s1)
    /\ phase' = "unmounted"

Next ==
    \/ Mount
    \/ SetPageValue
    \/ SetPageUpdater
    \/ SetLimitValue
    \/ SetEnabled
    \/ SetPollIntervalMs
    \/ TimerTick
    \/ Refetch
    \/ Settle
    \/ Unmount

Spec == Init /\ [][Next]_vars

\* ------------------------------------------------- the query-state setters
\* The same coordinator driven with every kind of number a caller can hand to
\* setPage / setLimit (NaN, the infinities, negatives, zero, fractions) and
\* every updater, with a transport that answers with one payload, one failure
\* or a cancellation.
QueryOutcomes(id) ==
    {RawResponse(TRUE, Body(TRUE, <<1>>, "object", Meta(1, 1))),
     RawResponse(FALSE, NullBody)} \cup (IF controllers[id] THEN {RawAbort} ELSE {})

QuerySetPageValue == \E v \in PageInputs : SetPageTo(v, MaxQueryPage)
QuerySetPageUpdater == \E u \in Updaters : SetPageTo(ApplyUpdater(u, page), MaxQueryPage)
QuerySetLimitValue == \E v \in LimitInputs : SetLimitTo(v, MaxQueryLimit)
QuerySetLimitUpdater == \E u \in Updaters : SetLimitTo(ApplyUpdater(u, limit), MaxQueryLimit)
QuerySettle == \E id \in DOMAIN calls : \E raw \in QueryOutcomes(id) : SettleWith(id, raw)

NextQuery ==
    \/ Mount
    \/ QuerySetPageValue
    \/ QuerySetPageUpdater
    \/ QuerySetLimitValue
    \/ QuerySetLimitUpdater
    \/ SetEnabled
    \/ QuerySettle
    \/ Unmount

InitQuery == InitFrom(PageInputs, LimitInputs) /\ StatsIdle

SpecQuery == InitQuery /\ [][NextQuery]_vars

\* ------------------------------------------------------ the poll timer alone
\* The coordinator as the dashboard mounts it: enabled, polling every
\* DEFAULT_SENSOR_POLL_INTERVAL_MS, first page, default page size.
InitPoll ==
    /\ InitFrom({Int2Num(PageFallback)}, {NaN})
    /\ enabled
    /\ pollIntervalMs = DEFAULT_SENSOR_POLL_INTERVAL_MS
    /\ StatsIdle

SpecPoll == InitPoll /\ [][Next]_vars

\* ------------------------------------------- polling over a slow transport
\* The coordinator mounted enabled with a poll interval, for any initial
\* page and limit, and left alone with its timer.
\* The transport rejects a cancelled request with the cancellation outcome
\* and answers a request that is not cancelled with a well-formed payload;
\* each pending request that stays uncancelled is eventually answered, each
\* cancelled one eventually rejected, and the timer keeps firing.
InitStarve ==
    /\ InitFrom(PageArgs, LimitArgs)
    /\ enabled
    /\ pollIntervalMs = DEFAULT_SENSOR_POLL_INTERVAL_MS
    /\ StatsIdle

PollAnswer(id) ==
    /\ id \in DOMAIN calls
    /\ ~controllers[id]
    /\ \E b \in GoodBodies : SettleWith(id, RawResponse(TRUE, b))
PollReject(id) ==
    /\ id \in DOMAIN calls
    /\ controllers[id]
    /\ SettleWith(id, RawAbort)
PollSettle == \E id \in 1 .. MaxInFlight : PollAnswer(id) \/ PollReject(id)

NextStarve ==
    \/ Mount
    \/ TimerTick
    \/ PollSettle

SpecStarve ==
    /\ InitStarve
    /\ [][NextStarve]_vars
    /\ WF_vars(Mount)
    /\ WF_vars(TimerTick)
    /\ \A id \in 1 .. MaxInFlight : WF_vars(PollAnswer(id)) /\ WF_vars(PollReject(id))

\* ------------------------------------------------- the table's controls
\* The coordinator as the dashboard mounts it, driven by the table: the
\* Previous and Next buttons (disabled while isLoading or while the table
\* computes that there is no such page, lines 216-234), the rows-per-page
\* select, the Refresh button (disabled while isLoading or isRefreshing,
\* lines 178-181) and the poll timer.  The server holds two pages and answers
\* with one of them or with a failure status.
TableBodies == {Body(TRUE, <<1>>, "object", Meta(1, 2)),
                Body(TRUE, <<2>>, "object", Meta(2, 2))}
TableOutcomes(id) ==
    {RawResponse(TRUE, b) : b \in TableBodies} \cup {RawResponse(FALSE, NullBody)}
       \cup (IF controllers[id] THEN {RawAbort} ELSE {})

HandlePrevious ==
    /\ phase = "mounted"
    /\ ~isLoading /\ canPreviousPage(Cur)
    /\ LET s0 == handlePrevious(Cur)
           s1 == RunEffects(Cur, s0) IN
       /\ Room(Cur, s0)
       /\ Apply(s1)
       /\ Record("previous", NoArg, Cur, s1)
    /\ UNCHANGED phase

HandleNext ==
    /\ phase = "mounted"
    /\ ~isLoading /\ canNextPage(Cur)
    /\ handleNext(Cur).page <= MaxTablePage
    /\ LET s0 == handleNext(Cur)
           s1 == RunEffects(Cur, s0) IN
       /\ Room(Cur, s0)
       /\ Apply(s1)
       /\ Record("next", NoArg, Cur, s1)
    /\ UNCHANGED phase

HandleLimitChange ==
    /\ phase = "mounted"
    /\ \E text \in SelectValues :
         LET s0 == handleLimitChange(Cur, text)
             s1 == RunEffects(Cur, s0) IN
         /\ Room(Cur, s0)
         /\ Apply(s1)
         /\ Record("limitChange", NumberParseInt(text), Cur, s1)
    /\ UNCHANGED phase

HandleManualRefresh ==
    /\ phase = "mounted"
    /\ ~isLoading /\ ~isRefreshing
    /\ CanIssue(Cur)
    /\ LET s1 == refetch(Cur) IN
       /\ Apply(s1)
       /\ Record("refetch", NoArg, Cur, s1)
    /\ UNCHANGED phase

TableSettle == \E id \in DOMAIN calls : \E raw \in TableOutcomes(id) : SettleWith(id, raw)

NextTable ==
    \/ Mount
    \/ HandlePrevious
    \/ HandleNext
    \/ HandleLimitChange
    \/ HandleManualRefresh
    \/ TimerTick
    \/ TableSettle
    \/ Unmount

SpecTable == InitPoll /\ [][NextTable]_vars

\* ------------------------------------------------------------ the transport
\* The coordinator without polling, answered with everything the network can
\* hand back: a rejected fetch(), any status, any body.
AllBodies == GoodBodies \cup BadBodies
FetchOutcomes(id) ==
    {RawNetwork} \cup {RawResponse(ok, b) : ok \in BOOLEAN, b \in AllBodies}
       \cup (IF controllers[id] THEN {RawAbort} ELSE {})
FetchSettle == \E id \in DOMAIN calls : \E raw \in FetchOutcomes(id) : SettleWith(id, raw)

InitFetch ==
    /\ InitFrom({Int2Num(PageFallback)}, {NaN})
    /\ enabled
    /\ pollIntervalMs = 0
    /\ StatsIdle

NextFetch ==
    \/ Mount
    \/ Refetch
    \/ FetchSettle
    \/ Unmount

SpecFetch == InitFetch /\ [][NextFetch]_vars

\* ------------------------------------------------- a transport that answers
\* The coordinator with a transport that honours cancellation (a cancelled
\* call ends with the cancellation outcome) and settles every call: a
\* pending call cannot wait for ever.
LiveOutcomes(id) == IF controllers[id] THEN {RawAbort} ELSE RawResponses
LiveSettle == \E id \in DOMAIN calls : \E raw \in LiveOutcomes(id) : SettleWith(id, raw)

NextLive ==
    \/ Mount
    \/ SetPageValue
    \/ SetPageUpdater
    \/ SetLimitValue
    \/ SetEnabled
    \/ SetPollIntervalMs
    \/ TimerTick
    \/ Refetch
    \/ LiveSettle
    \/ Unmount

SpecLive == Init /\ [][NextLive]_vars /\ WF_vars(Mount) /\ WF_vars(LiveSettle)

\* ------------------------------------------------------------ the dashboard
\* The dashboard's useMemo(() => computeStatistics(data), [data]) on its own:
\* the coordinator has handed over a page of readings and stays as it is;
\* the render computes the statistics.
InitStats ==
    /\ InitFrom({Int2Num(PageFallback)}, {NaN})
    /\ enabled
    /\ pollIntervalMs = DEFAULT_SENSOR_POLL_INTERVAL_MS
    /\ readings \in ReadingSeqs
    /\ statistics = NotComputed

ComputeStatistics ==
    /\ statistics = NotComputed
    /\ statistics' = computeStatistics(readings)
    /\ UNCHANGED <<progVars, phase, histVars, readings>>

NextStats == ComputeStatistics

SpecStats == InitStats /\ [][NextStats]_vars

\* ================================================================== claims
\* Steps named by the history variable last.
SettleStep == last'.op = "settle"
\* The settling call was, before the step, the most recently issued one.
SettlesLatest == SettleStep /\ last'.id = controllerRef
SettlesSuperseded == SettleStep /\ last'.id # controllerRef
Resolved == last'.result.kind = "resolve"
Cancelled == last'.result.kind = "reject" /\ last'.result.err = "AbortError"
Failed == last'.result.kind = "reject" /\ last'.result.err # "AbortError"

\* C1: data and meta change only in a step in which a request that is still
\* the most recently issued one and is not cancelled receives a successful
\* response, and they become that response's data and meta; a response to a
\* superseded request changes neither.
C1_CommitOnlyByLatest ==
    [][(data' # data \/ meta' # meta) =>
          /\ SettlesLatest
          /\ ~controllers[last'.id]
          /\ Resolved
          /\ data' = last'.result.payload.data
          /\ meta' = last'.result.payload.meta]_vars

\* A successful response to a superseded request has just been discarded:
\* data and meta are still those of the earlier commit.
C1_Witness ==
    /\ last.op = "settle"
    /\ last.result.kind = "resolve"
    /\ lastSuccess # NoPayload
    /\ data = lastSuccess.data /\ meta = lastSuccess.meta
    /\ data # last.result.payload.data

\* C2: the completion (response, failure or cancellation) of a request that
\* has been superseded by a newer request changes no coordinator state; in
\* particular it sets neither isLoading nor isRefreshing to false.
C2_SupersededCompletionChangesNothing ==
    [][SettlesSuperseded =>
          UNCHANGED <<page, limit, data, meta, isLoading, isRefreshing, error>>]_vars

\* C3: when request B superseded request A and A settled after B did, then
\* once both have settled isLoading and isRefreshing are false and, if B's
\* response was a success, data and meta are B's response.
C3_FinalStateReflectsLatest ==
    (/\ phase = "mounted"
     /\ lateStale
     /\ DOMAIN calls = {}
     /\ controllerRef # 0
     /\ latestOutcome \in {"ok", "failed"})
    => (/\ ~isLoading
        /\ ~isRefreshing
        /\ (latestOutcome = "ok" /\ ~controllers[controllerRef]
              => data = lastSuccess.data /\ meta = lastSuccess.meta))

\* C4: a failure other than a cancellation of a request that has been
\* superseded by a newer request never writes error.
C4_SupersededFailureKeepsError ==
    [][(SettlesSuperseded /\ Failed) => error' = error]_vars

\* C5: a request that ends with a cancellation outcome sets no error and
\* changes neither data nor meta.
C5_CancellationIsSilent ==
    [][(SettleStep /\ Cancelled) =>
          (error' = error /\ data' = data /\ meta' = meta)]_vars

\* A request cancelled by a disable has settled with the cancellation outcome.
C5_Witness ==
    /\ last.op = "settle"
    /\ last.result.err = "AbortError"
    /\ ~enabled
    /\ latestOutcome = "cancelled"

\* C6: when the most recently issued request fails with an HTTP or shape
\* error, error becomes that error, and data and meta keep the values they
\* had before the request was issued (dirty is false: they did not change
\* since then, and they do not change in this step).
C6_FailureKeepsLastGood ==
    [][(SettlesLatest /\ Failed) =>
          (/\ error' = last'.result.err
           /\ ~dirty
           /\ data' = data /\ meta' = meta)]_vars

\* The most recent request has just failed after an earlier one had
\* committed: error is set and the committed data is still there.
C6_Witness ==
    /\ last.op = "settle"
    /\ last.result.kind = "reject"
    /\ latestOutcome = "failed"
    /\ ~lateStale
    /\ error = last.result.err
    /\ data # EmptyData /\ data = lastSuccess.data

\* C7: whenever the most recently issued request commits a successful
\* response, error is null right after.
C7_CommitClearsError ==
    [][(SettlesLatest /\ Resolved /\ ~controllers[last'.id]) => error' = NoError]_vars

\* The most recent request has just committed its response (no superseded
\* request settled after it) and error is null.
C7_Witness ==
    /\ last.op = "settle"
    /\ last.result.kind = "resolve"
    /\ latestOutcome = "ok"
    /\ ~lateStale
    /\ lastSuccess = last.result.payload
    /\ data = <<2, 1>>
    /\ error = NoError

\* C8: in every reachable state page >= 1 and limit >= 1.
C8_QueryStatePositive == page >= 1 /\ limit >= 1

\* C9: setPage(v) sets page to floor(v) when v is finite and floor(v) >= 1 and
\* to 1 otherwise; setLimit(v) sets limit to floor(v) when v is finite and
\* floor(v) >= 1 and to 20 otherwise.
Expected(v, fallback) ==
    IF v.k = "fin" /\ (v.h \div 2) >= 1 THEN v.h \div 2 ELSE fallback
C9_SettersSanitize ==
    [][/\ last'.op = "setPage" => page' = Expected(last'.arg, 1)
       /\ last'.op = "setLimit" => limit' = Expected(last'.arg, 20)]_vars

\* C10: setLimit leaves page unchanged and setPage leaves limit unchanged.
C10_SettersFrame ==
    [][/\ last'.op = "setLimit" => page' = page
       /\ last'.op = "setPage" => limit' = limit]_vars

\* setLimit has just been called on a page other than the first, and the
\* page is still that one.
C10_Witness ==
    /\ last.op = "setLimit"
    /\ limit = LimitFallback
    /\ page = 2

\* A step that runs the load effect while the coordinator is enabled: the
\* initial activation, a change of page, a change of limit, a re-enable.
LoadTrigger ==
    /\ enabled'
    /\ \/ last'.op = "mount"
       \/ last'.op = "setPage" /\ page' # page
       \/ last'.op = "setLimit" /\ limit' # limit
       \/ last'.op = "setEnabled" /\ ~enabled

\* C11: while enabled, the initial activation, a change of page, a change of
\* limit and a re-enable each cancel every request in flight and issue
\* exactly one new, uncancelled, load-type request that carries the current
\* page and limit, and isLoading is true right after the step.
C11_LoadTriggerRestarts ==
    [][LoadTrigger =>
          /\ \A c \in DOMAIN calls : controllers'[c]
          /\ controllerRef' \notin DOMAIN calls
          /\ DOMAIN calls' = DOMAIN calls \cup {controllerRef'}
          /\ ~controllers'[controllerRef']
          /\ calls'[controllerRef'].withLoading
          /\ request' = [page |-> page', limit |-> limit']
          /\ isLoading']_vars

\* A change of limit has just cancelled the request in flight and issued a
\* new one for the new limit.
C11_Witness ==
    /\ last.op = "setLimit"
    /\ last.id = 2
    /\ enabled
    /\ DOMAIN calls = {1, 2}
    /\ controllers[1] /\ ~controllers[2]
    /\ calls[2].withLoading
    /\ request = [page |-> page, limit |-> limit]
    /\ isLoading

\* C12: every request started by the poll timer carries the page and limit
\* the coordinator holds when the timer fires, also after setPage or
\* setLimit was called since the timer was first installed.
C12_TimerUsesCurrentQuery ==
    [][last'.op = "timer" =>
          /\ last'.id # 0
          /\ request' = [page |-> page, limit |-> limit]
          /\ page' = page /\ limit' = limit]_vars

\* The timer has just fired after the page size was changed from the default
\* it was installed with at activation; its request carries the new size.
C12_Witness ==
    /\ last.op = "timer"
    /\ limit = 1
    /\ request = [page |-> page, limit |-> 1]
    /\ controllerRef \in DOMAIN calls
    /\ ~calls[controllerRef].withLoading

\* C13: right after the poll timer starts a request, isRefreshing is true
\* and isLoading is false, whatever request was in flight when it fired.
C13_TimerRequestIsRefresh ==
    [][last'.op = "timer" => isRefreshing' /\ ~isLoading']_vars

\* C14: the poll timer issues no request while enabled is false or
\* pollIntervalMs <= 0: a timer fires only while the coordinator is enabled
\* with a positive interval, and no timer installed earlier is left alive
\* once the coordinator is disabled or the interval is not positive.
C14_NoTimerWhenOff ==
    [][/\ last'.op = "timer" => enabled /\ pollIntervalMs > 0
       /\ (~enabled' \/ pollIntervalMs' <= 0) => DOMAIN timers' = {}]_vars

\* The interval has just been set to zero while a timer installed with the
\* earlier interval was polling: the timer is gone.
C14_Witness ==
    /\ last.op = "setPollIntervalMs"
    /\ enabled
    /\ pollIntervalMs = 0
    /\ DOMAIN timers = {}
    /\ intervalRef = 0
    /\ isRefreshing

\* The name a pending call c other than the settling one bears after the
\* step (Collect closes the gap a settled, superseded call leaves).
NameAfter(c) ==
    IF SettleStep /\ last'.id < c /\ last'.id # controllerRef THEN c - 1 ELSE c

\* C15: the step in which enabled becomes false cancels every request in
\* flight and the tracked token, stops the timer and leaves isLoading and
\* isRefreshing false; a cancelled request stays cancelled for as long as it
\* is pending, and the response given to a cancelled request changes neither
\* data nor meta.  So no request issued before the disable changes them.
C15_DisableCancelsAndSilences ==
    [][/\ (last'.op = "setEnabled" /\ ~enabled') =>
             /\ DOMAIN calls' = DOMAIN calls
             /\ \A c \in DOMAIN calls : controllers'[c]
             /\ controllerRef' = controllerRef
             /\ controllerRef # 0 => controllers'[controllerRef]
             /\ DOMAIN timers' = {} /\ intervalRef' = 0
             /\ ~isLoading' /\ ~isRefreshing'
       /\ \A c \in DOMAIN calls :
             (controllers[c] /\ ~(SettleStep /\ last'.id = c)) =>
                 (NameAfter(c) \in DOMAIN calls' /\ controllers'[NameAfter(c)])
       /\ (SettleStep /\ controllers[last'.id]) => (data' = data /\ meta' = meta)]_vars

\* The request that was tracked when the coordinator was disabled has just
\* been answered with a well-formed payload, and nothing was committed.
C15_Witness ==
    /\ phase = "mounted"
    /\ ~enabled
    /\ last.op = "settle"
    /\ last.result.kind = "resolve"
    /\ last.id = controllerRef
    /\ controllers[controllerRef]
    /\ lastSuccess = NoPayload
    /\ data = EmptyData /\ meta = NullMeta
    /\ ~isLoading /\ ~isRefreshing
    /\ DOMAIN timers = {}

\* C16: while enabled is false no operation issues a fetch, and isLoading
\* and isRefreshing stay false for as long as the coordinator is disabled.
C16_DisabledIsQuiet ==
    [][(phase' = "mounted" /\ ~enabled /\ ~enabled') =>
          /\ Cardinality(DOMAIN calls') <= Cardinality(DOMAIN calls)
          /\ ~isLoading' /\ ~isRefreshing']_vars

\* C17: teardown cancels every request in flight and the tracked token and
\* stops the timer, whatever the state it is run in; after teardown no timer
\* is alive or fires, every pending request stays cancelled, and no step
\* changes data or meta.
C17_TeardownCancelsAll ==
    [][/\ last'.op = "unmount" =>
             /\ DOMAIN calls' = DOMAIN calls
             /\ \A c \in DOMAIN calls : controllers'[c]
             /\ controllerRef # 0 => controllers'[controllerRef]
             /\ DOMAIN timers' = {} /\ intervalRef' = 0
       /\ phase = "unmounted" =>
             /\ last'.op = "settle"
             /\ DOMAIN timers' = {}
             /\ \A c \in DOMAIN calls' : controllers'[c]
             /\ data' = data /\ meta' = meta]_vars

\* After a teardown that found the coordinator enabled with a request in
\* flight, that request has been answered with a well-formed payload:
\* nothing was committed and no timer is left.
C17_Witness ==
    /\ phase = "unmounted"
    /\ enabled /\ pollIntervalMs > 0
    /\ last.op = "settle"
    /\ last.result.kind = "resolve"
    /\ last.id = controllerRef
    /\ controllers[controllerRef]
    /\ lastSuccess = NoPayload
    /\ data = EmptyData /\ meta = NullMeta
    /\ DOMAIN timers = {}

\* C18: refetch() issues a refresh-type request for the coordinator's
\* current page and limit and sets isRefreshing to true without changing
\* isLoading, and the completion of a refresh-type request does not change
\* isLoading either.
C18_RefetchLeavesIsLoading ==
    [][/\ last'.op = "refetch" =>
             /\ last'.id = controllerRef'
             /\ DOMAIN calls' = DOMAIN calls \cup {controllerRef'}
             /\ controllerRef' \notin DOMAIN calls
             /\ ~calls'[controllerRef'].withLoading
             /\ request' = [page |-> page, limit |-> limit]
             /\ page' = page /\ limit' = limit
             /\ isRefreshing'
             /\ isLoading' = isLoading
       /\ (SettleStep /\ ~calls[last'.id].withLoading) => isLoading' = isLoading]_vars

\* refetch() has just been called while a load request was in flight:
\* isRefreshing is true and isLoading is still true.
C18_Witness ==
    /\ last.op = "refetch"
    /\ DOMAIN calls = {1, 2}
    /\ calls[1].withLoading /\ ~calls[2].withLoading
    /\ request = [page |-> page, limit |-> limit]
    /\ isRefreshing
    /\ isLoading

\* The settling call commits: it is the most recently issued one, it is not
\* cancelled, and its response is well formed.
Commits == SettlesLatest /\ Resolved /\ ~controllers[last'.id]

\* C19: the value a fetchData call hands back to its caller (refetch()
\* returns it) is the response payload exactly when the call commits that
\* payload as the most recently issued request, and null when the request
\* failed, was cancelled or was superseded; a failure is stored in error.
C19_RefetchResult ==
    [][SettleStep =>
          /\ Commits => /\ last'.ret = last'.result.payload
                        /\ last'.ret # NoPayload
                        /\ data' = last'.ret.data /\ meta' = last'.ret.meta
          /\ (Failed \/ Cancelled \/ SettlesSuperseded \/ controllers[last'.id])
                => last'.ret = NoPayload
          /\ last'.ret # NoPayload => Commits
          /\ Failed => error' = last'.result.err]_vars

\* A request has just committed its response and handed the payload back
\* while the coordinator is disabled: every request issued before the
\* disable was cancelled, so this one was issued by refetch().
C19_Witness ==
    /\ phase = "mounted"
    /\ ~enabled
    /\ last.op = "settle"
    /\ last.id = controllerRef
    /\ last.ret = last.result.payload
    /\ last.ret # NoPayload
    /\ data = last.ret.data /\ meta = last.ret.meta
    /\ error = NoError

\* C20: at every instant at most one request in flight has a token that is
\* not cancelled, and that request is the tracked one: every start of a
\* request has cancelled the request tracked before it.
C20_AtMostOneLiveRequest ==
    /\ \A c \in DOMAIN calls : ~controllers[c] => c = controllerRef
    /\ Cardinality({c \in DOMAIN calls : ~controllers[c]}) <= 1

\* The timer has just started a request while another one was in flight:
\* the earlier one is cancelled, the new one is tracked and not cancelled.
C20_Witness ==
    /\ last.op = "timer"
    /\ DOMAIN calls = {1, 2}
    /\ controllers[1] /\ ~controllers[2]
    /\ controllerRef = 2

\* C21: right after the coordinator commits a successful response, the page
\* it reports equals the response's meta.page, and meta is the response's
\* meta, totalPages included.
C21_PageFollowsMeta ==
    [][Commits =>
          /\ page' = last'.result.payload.meta.page
          /\ meta' = last'.result.payload.meta
          /\ meta'.totalPages = last'.result.payload.meta.totalPages]_vars

\* C22: when a request that is still the most recently issued one settles,
\* by success, failure or cancellation, its own flag is false right after:
\* isLoading for a load-type request, isRefreshing for a refresh-type one;
\* and when it commits, data is the response's data.
C22_LatestClearsOwnFlag ==
    [][SettlesLatest =>
          /\ calls[last'.id].withLoading => ~isLoading'
          /\ ~calls[last'.id].withLoading => ~isRefreshing'
          /\ Commits => data' = last'.result.payload.data]_vars

\* The only request issued so far, the load of the activation, has just
\* committed: isLoading went from true to false and data is the response.
C22_Witness ==
    /\ last.op = "settle"
    /\ last.id = 1 /\ controllerRef = 1
    /\ DOMAIN calls = {}
    /\ ~lateStale
    /\ last.ret # NoPayload
    /\ data = last.result.payload.data
    /\ ~isLoading /\ ~isRefreshing
    /\ enabled

\* --------------------------------------------- claims on computeStatistics
Computed == statistics # NotComputed
Idx == 1 .. Len(readings)
Parseable(i) == DateParse(readings[i].timestamp).k # "nan"
FiniteMoisture(i) ==
    TypeofIsNumber(readings[i].moisture) /\ NumberIsFinite(readings[i].moisture)
TimeOf(i) == DateParse(readings[i].timestamp).h
\* The readings with a parseable timestamp, with finite moisture, with both.
Dated == {i \in Idx : Parseable(i)}
Measured == {i \in Idx : FiniteMoisture(i)}
Valid == Dated \cap Measured
\* The first reading in input order among those of Dated with the greatest
\* (the smallest) parsed time.
FirstLatest == Smallest({i \in Dated : \A j \in Dated : TimeOf(j) <= TimeOf(i)})
FirstEarliest == Smallest({i \in Dated : \A j \in Dated : TimeOf(i) <= TimeOf(j)})
\* The rearrangements of the input.
Rearranged ==
    {[i \in Idx |-> readings[f[i]]] :
        f \in {g \in [Idx -> Idx] : \A a, b \in Idx : g[a] = g[b] => a = b}}

\* C23: trend does not depend on the order of the input: every rearrangement
\* of the readings gives the same trend.
C23_TrendOrderIndependent ==
    Computed => \A p \in Rearranged : computeStatistics(p).trend = statistics.trend

\* C23, amended: when no two readings with a parseable timestamp share a
\* parsed time, every rearrangement of the readings gives the same trend.
C23_TrendOrderIndependentDistinct ==
    (Computed /\ \A i, j \in Dated : TimeOf(i) = TimeOf(j) => i = j) =>
       \A p \in Rearranged : computeStatistics(p).trend = statistics.trend

\* Three readings of three different instants, the latest first and the
\* earliest last: the trend is 3 - 1 as for the readings in time order.
C23_Witness ==
    /\ Computed
    /\ Len(readings) = 3
    /\ Dated = {1, 2, 3}
    /\ TimeOf(1) > TimeOf(2) /\ TimeOf(3) < TimeOf(2)
    /\ readings[1].moisture = Int2Num(3) /\ readings[3].moisture = Int2Num(1)
    /\ statistics.trend = Int2Num(2)

\* C24: when at least one reading has a parseable timestamp and finite
\* moisture, trend is the moisture of a latest such reading minus the
\* moisture of an earliest such reading; trend is null only when there is no
\* such reading.
C24_TrendOverValidReadings ==
    Computed =>
       IF Valid = {} THEN statistics.trend = NullValue
       ELSE \E i, j \in Valid :
               /\ \A k \in Valid : TimeOf(k) <= TimeOf(i) /\ TimeOf(j) <= TimeOf(k)
               /\ statistics.trend = Minus(readings[i].moisture, readings[j].moisture)

\* C25: when several readings share the greatest (the smallest) parsed
\* timestamp, latest (earliest) is the first of them in input order.
C25_TiesKeepFirst ==
    (Computed /\ Dated # {}) =>
       /\ statistics.latest = readings[FirstLatest]
       /\ statistics.earliest = readings[FirstEarliest]

\* Two different readings share one instant, spelled in two ways, which is
\* both the greatest and the smallest time; latest and earliest are the
\* first of the two.
C25_Witness ==
    /\ Computed
    /\ Len(readings) = 3
    /\ TimeOf(1) = TimeOf(2) /\ Parseable(1) /\ Parseable(2) /\ ~Parseable(3)
    /\ readings[1].timestamp # readings[2].timestamp
    /\ readings[1].moisture # readings[2].moisture
    /\ statistics.latest = readings[1]
    /\ statistics.earliest = readings[1]
    /\ statistics.latest # readings[2]

\* Sum of the moistures (in halves) of the readings of a set of indices.
RECURSIVE SumH(_)
SumH(S) == IF S = {} THEN 0
           ELSE LET i == CHOOSE x \in S : TRUE IN readings[i].moisture.h + SumH(S \ {i})
LeastH(S) == CHOOSE m \in {readings[i].moisture.h : i \in S} :
                \A i \in S : m <= readings[i].moisture.h
GreatestH(S) == CHOOSE m \in {readings[i].moisture.h : i \in S} :
                   \A i \in S : readings[i].moisture.h <= m

\* C26: computeStatistics agrees with the reference: sum, count, min and max
\* range over exactly the readings with finite moisture; average is
\* sum / count and range is max - min; all four are null exactly when no
\* reading has finite moisture; trend is latest.moisture - earliest.moisture
\* when the readings selected by timestamp both have finite moisture, and
\* null otherwise.
C26_AgreesWithReference ==
    Computed =>
       /\ Measured = {} =>
             /\ statistics.average = NullValue /\ statistics.min = NullValue
             /\ statistics.max = NullValue /\ statistics.range = NullValue
       /\ Measured # {} =>
             /\ statistics.average.k = "ratio"
             /\ statistics.average.n * 2 * Cardinality(Measured)
                  = SumH(Measured) * statistics.average.d
             /\ statistics.min = Fin(LeastH(Measured))
             /\ statistics.max = Fin(GreatestH(Measured))
             /\ statistics.range = Fin(GreatestH(Measured) - LeastH(Measured))
       /\ (Dated # {} /\ FirstLatest \in Measured /\ FirstEarliest \in Measured) =>
             statistics.trend = Fin(readings[FirstLatest].moisture.h
                                      - readings[FirstEarliest].moisture.h)
       /\ (Dated = {} \/ FirstLatest \notin Measured \/ FirstEarliest \notin Measured) =>
             statistics.trend = NullValue

\* Three readings, one without finite moisture and one without a date: the
\* average is 2 over the two measured ones, the trend is 3 - 1.
C26_Witness ==
    /\ Computed
    /\ Len(readings) = 3
    /\ Cardinality(Measured) = 2 /\ Cardinality(Dated) = 2
    /\ statistics.average = Ratio(2, 1)
    /\ statistics.min = Int2Num(1) /\ statistics.max = Int2Num(3)
    /\ statistics.range = Int2Num(2)
    /\ statistics.trend = Int2Num(2)

\* C27: on an empty sequence every field is null: average, min, max, range,
\* trend, latest, earliest and lastUpdated.
C27_EmptyIsAllNull ==
    (Computed /\ readings = << >>) =>
       /\ statistics.average = NullValue /\ statistics.min = NullValue
       /\ statistics.max = NullValue /\ statistics.range = NullValue
       /\ statistics.trend = NullValue
       /\ statistics.latest = NullReading /\ statistics.earliest = NullReading
       /\ statistics.lastUpdated = NullValue

\* The statistics of the empty sequence have been computed.
C27_Witness ==
    /\ Computed
    /\ readings = << >>
    /\ statistics.lastUpdated = NullValue
    /\ statistics.latest = NullReading

\* C28: for exactly one reading with a parseable timestamp and finite
\* moisture m: average = min = max = m, range = 0, trend = 0 and latest and
\* earliest are that reading.
C28_SingleReading ==
    (Computed /\ Len(readings) = 1 /\ Valid = {1}) =>
       /\ statistics.average = Ratio(readings[1].moisture.h, 2)
       /\ statistics.min = readings[1].moisture
       /\ statistics.max = readings[1].moisture
       /\ statistics.range = Int2Num(0)
       /\ statistics.trend = Int2Num(0)
       /\ statistics.latest = readings[1] /\ statistics.earliest = readings[1]

\* The statistics of one reading with moisture 3 have been computed.
C28_Witness ==
    /\ Computed
    /\ Len(readings) = 1
    /\ Valid = {1}
    /\ readings[1].moisture = Int2Num(3)
    /\ statistics.average = Ratio(3, 1)
    /\ statistics.trend = Int2Num(0)
    /\ statistics.latest = readings[1]

\* C29: fetchSensorReadings fails whenever the status is not 2xx, the
\* decoded body is missing, data is not an array, or meta is not an object
\* (absent, null or a primitive); it resolves, with the payload, only when
\* none of these holds.
C29_ShapeErrors ==
    [][SettleStep =>
          LET raw == last'.arg
              wellFormed == /\ raw.t = "response"
                            /\ raw.ok
                            /\ ~raw.body.isNull
                            /\ raw.body.dataIsArray
                            /\ raw.body.metaType = "object"
          IN /\ wellFormed <=> last'.result.kind = "resolve"
             /\ wellFormed =>
                  last'.result.payload = [data |-> raw.body.data, meta |-> raw.body.meta]]_vars

\* C30: if from some point on no trigger occurs (every step is the settling
\* of a request) and the transport settles every request, cancelled ones
\* with the cancellation outcome, the coordinator reaches a state with
\* isLoading = false and isRefreshing = false.
C30_LoadingEnds ==
    <>[][SettleStep]_vars => <>(~isLoading /\ ~isRefreshing)

\* C34: at most one poll timer is alive at any time, and it is the one held
\* by intervalRef: every change of page, limit, pollIntervalMs or enabled
\* removes the installed timer before another one is installed.
C34_AtMostOneTimer ==
    /\ Cardinality(DOMAIN timers) <= 1
    /\ DOMAIN timers \subseteq {intervalRef}

\* A change of limit has just replaced the polling timer: one timer is
\* alive, installed for the new limit.
C34_Witness ==
    /\ last.op = "setLimit"
    /\ last.id # 0
    /\ enabled /\ pollIntervalMs > 0
    /\ DOMAIN timers = {intervalRef}
    /\ timers[intervalRef] = [page |-> page, limit |-> limit]

\* C31: choosing a rows-per-page value in the table leaves the coordinator
\* with limit = value and page = 1; the request that is then the most
\* recently issued one carries page 1 and the new limit, and every other
\* pending request is cancelled.
C31_LimitChangeResetsPage ==
    [][last'.op = "limitChange" =>
         /\ Int2Num(limit') = last'.arg
         /\ page' = 1
         /\ controllerRef' # 0
         /\ request' = [page |-> 1, limit |-> limit']
         /\ \A id \in DOMAIN calls' \ {controllerRef'} : controllers'[id]
         /\ (limit' # limit \/ page # 1) =>
               /\ last'.id = controllerRef'
               /\ controllerRef' \in DOMAIN calls'
               /\ ~controllers'[controllerRef']]_vars

\* The page size 50 has just been chosen while the table showed page 2 and
\* an earlier request was still pending: the coordinator is on page 1 with
\* limit 50 and the request issued by the choice is the tracked one.
C31_Witness ==
    /\ last.op = "limitChange"
    /\ last.id = controllerRef
    /\ last.arg = Int2Num(50)
    /\ limit = 50 /\ page = 1
    /\ Cardinality(DOMAIN calls) = 2
    /\ ~meta.isNull /\ meta.page = 2

\* C33: after a step of the table's Previous or Next control, taken while
\* the control is enabled, the coordinator's page is at least 1 and, when
\* the committed meta reports totalPages > 0, at most that totalPages.
C33_PagingStaysInRange ==
    last.op \in {"previous", "next"} =>
        /\ page >= 1
        /\ (~meta.isNull /\ meta.totalPages > 0) => page <= meta.totalPages

\* C32: with polling enabled and a transport that eventually answers every
\* request that is not cancelled, some request eventually commits its
\* response.
C32_PollingCommits == <>(lastSuccess # NoPayload)

====
